---- MODULE Spec2Model ----
(***************************************************************************)
(* The chess game controller of ai_chess_agents.py: the session state      *)
(* (board, made_move, board_svg, move_history), the two tools the agents   *)
(* call (available_moves, make_move), the termination test of the board    *)
(* proxy (check_made_move) and the two buttons (Start Game, Reset Game).   *)
(*                                                                         *)
(* A Python str is a sequence of one-character strings, so that parsing    *)
(* (chess.Move.from_uci) and formatting (str(move)) are computed and not   *)
(* assumed.  The rules engine is the python-chess library the script       *)
(* imports; the operators below follow its Move and Board methods.         *)
(***************************************************************************)
EXTENDS Integers, Sequences, FiniteSets, TLC

VARIABLES board, made_move, board_svg, move_history, op, arg, ret, handoff, pre_ply

vars == <<board, made_move, board_svg, move_history, op, arg, ret, handoff, pre_ply>>

(***************************************************************************)
(* Bounds of the model.                                                    *)
(***************************************************************************)
\* make_move is not explored on a board that already holds MaxPly plies.
MaxPly == 8
\* Plies played before the positions that SpecMid starts from.
PriorPlies == 2
\* handoff counts up to HandoffCap and stays there.
HandoffCap == 2

(***************************************************************************)
(* python-chess: squares, piece symbols, names.                            *)
(***************************************************************************)
None == "None"
NoSquare == 0 - 1
WHITE == TRUE
BLACK == FALSE

Squares == 0 .. 63
square_file(s) == s % 8
square_rank(s) == s \div 8
square(f, r) == r * 8 + f
Abs(x) == IF x < 0 THEN 0 - x ELSE x

FILE_NAMES == <<"a", "b", "c", "d", "e", "f", "g", "h">>
RANK_NAMES == <<"1", "2", "3", "4", "5", "6", "7", "8">>
SQUARE_NAMES == [s \in Squares |-> <<FILE_NAMES[square_file(s) + 1], RANK_NAMES[square_rank(s) + 1]>>]

\* PIECE_SYMBOLS[1:]; a piece type is its lower-case symbol.
PIECE_SYMBOLS == <<"p", "n", "b", "r", "q", "k">>
UPPER_SYMBOLS == <<"P", "N", "B", "R", "Q", "K">>
PIECE_NAMES == <<"pawn", "knight", "bishop", "rook", "queen", "king">>
UNICODE_PIECE_SYMBOLS == <<"U+265F", "U+265E", "U+265D", "U+265C", "U+265B", "U+265A">>
UNICODE_UPPER_SYMBOLS == <<"U+2659", "U+2658", "U+2657", "U+2656", "U+2655", "U+2654">>

IndexOf(seq, x) == IF \E i \in 1 .. Len(seq) : seq[i] = x
                   THEN CHOOSE i \in 1 .. Len(seq) : seq[i] = x
                   ELSE 0

\* str.lower() and str.upper() on one character.
Lower(c) == CASE c = "P" -> "p" [] c = "N" -> "n" [] c = "B" -> "b"
             [] c = "R" -> "r" [] c = "Q" -> "q" [] c = "K" -> "k" [] OTHER -> c
Upper(c) == CASE c = "p" -> "P" [] c = "n" -> "N" [] c = "b" -> "B"
             [] c = "r" -> "R" [] c = "q" -> "Q" [] c = "k" -> "K" [] OTHER -> c

\* A piece on a square is its symbol: upper case for White, lower case for Black.
piece_type(sym) == Lower(sym)
piece_color(sym) == sym \in {"P", "N", "B", "R", "Q", "K"}
piece_symbol(type, color) == IF color = WHITE THEN Upper(type) ELSE type
piece_name(type) == PIECE_NAMES[IndexOf(PIECE_SYMBOLS, type)]
unicode_symbol(sym) == IF piece_color(sym) = WHITE
                       THEN UNICODE_UPPER_SYMBOLS[IndexOf(UPPER_SYMBOLS, sym)]
                       ELSE UNICODE_PIECE_SYMBOLS[IndexOf(PIECE_SYMBOLS, sym)]

\* SQUARE_NAMES.index(two characters); NoSquare where index() raises ValueError.
SquareIndex(f, r) == IF IndexOf(FILE_NAMES, f) > 0 /\ IndexOf(RANK_NAMES, r) > 0
                     THEN square(IndexOf(FILE_NAMES, f) - 1, IndexOf(RANK_NAMES, r) - 1)
                     ELSE NoSquare

(***************************************************************************)
(* chess.Move                                                              *)
(***************************************************************************)
Move(from_square, to_square, promotion, drop) ==
    [ok |-> TRUE, from_square |-> from_square, to_square |-> to_square,
     promotion |-> promotion, drop |-> drop]

\* from_uci raised InvalidMoveError, a ValueError.
InvalidMoveError == [ok |-> FALSE, from_square |-> 0, to_square |-> 0, promotion |-> None, drop |-> None]

Move_null == Move(0, 0, None, None)

\* Move.__bool__
Move_bool(m) == m.from_square # 0 \/ m.to_square # 0 \/ m.promotion # None \/ m.drop # None

\* Move.from_uci
DropFromUci(uci) ==
    LET drop == IndexOf(PIECE_SYMBOLS, Lower(uci[1]))
        sq == SquareIndex(uci[3], uci[4])
    IN  IF drop = 0 \/ sq = NoSquare THEN InvalidMoveError
        ELSE Move(sq, sq, None, PIECE_SYMBOLS[drop])

PairFromUci(uci) ==
    LET from_square == SquareIndex(uci[1], uci[2])
        to_square == SquareIndex(uci[3], uci[4])
        promotion == IF Len(uci) = 5 THEN IndexOf(PIECE_SYMBOLS, uci[5]) ELSE 0
    IN  IF from_square = NoSquare \/ to_square = NoSquare THEN InvalidMoveError
        ELSE IF Len(uci) = 5 /\ promotion = 0 THEN InvalidMoveError
        ELSE IF from_square = to_square THEN InvalidMoveError
        ELSE Move(from_square, to_square,
                  IF Len(uci) = 5 THEN PIECE_SYMBOLS[promotion] ELSE None, None)

from_uci(uci) ==
    IF uci = <<"0", "0", "0", "0">> THEN Move_null
    ELSE IF Len(uci) = 4 /\ uci[2] = "@" THEN DropFromUci(uci)
    ELSE IF Len(uci) \in {4, 5} THEN PairFromUci(uci)
    ELSE InvalidMoveError

\* Move.uci(), which is str(move)
uci(m) ==
    IF m.drop # None
    THEN <<Upper(m.drop), "@">> \o SQUARE_NAMES[m.to_square]
    ELSE IF m.promotion # None
    THEN SQUARE_NAMES[m.from_square] \o SQUARE_NAMES[m.to_square] \o <<m.promotion>>
    ELSE IF Move_bool(m)
    THEN SQUARE_NAMES[m.from_square] \o SQUARE_NAMES[m.to_square]
    ELSE <<"0", "0", "0", "0">>

(***************************************************************************)
(* chess.Board: geometry and attacks.  A board is a record                 *)
(*   pieces          square -> piece symbol or None                        *)
(*   turn            WHITE or BLACK                                        *)
(*   castling_rights the set of rook squares that may still castle         *)
(*   ep_square       the en passant square, or NoSquare                    *)
(*   ply             len(move_stack)                                       *)
(* halfmove_clock and fullmove_number are left out: no method the script   *)
(* calls reads them.                                                       *)
(***************************************************************************)
Aligned(a, b) ==
    /\ a # b
    /\ \/ square_file(a) = square_file(b)
       \/ square_rank(a) = square_rank(b)
       \/ Abs(square_file(a) - square_file(b)) = Abs(square_rank(a) - square_rank(b))

InRange(x, p, q) == (p <= x /\ x <= q) \/ (q <= x /\ x <= p)

\* chess.between(a, b)
between == [a \in Squares |-> [b \in Squares |->
    IF ~Aligned(a, b) THEN {}
    ELSE {t \in Squares \ {a, b} :
            /\ InRange(square_file(t), square_file(a), square_file(b))
            /\ InRange(square_rank(t), square_rank(a), square_rank(b))
            /\ (square_file(t) - square_file(a)) * (square_rank(b) - square_rank(a))
                 = (square_rank(t) - square_rank(a)) * (square_file(b) - square_file(a))}]]

BB_KNIGHT_ATTACKS == [s \in Squares |-> {t \in Squares :
    {Abs(square_file(s) - square_file(t)), Abs(square_rank(s) - square_rank(t))} = {1, 2}}]

BB_KING_ATTACKS == [s \in Squares |-> {t \in Squares \ {s} :
    Abs(square_file(s) - square_file(t)) <= 1 /\ Abs(square_rank(s) - square_rank(t)) <= 1}]

BB_PAWN_ATTACKS == [color \in BOOLEAN |-> [s \in Squares |-> {t \in Squares :
    /\ Abs(square_file(s) - square_file(t)) = 1
    /\ square_rank(t) = square_rank(s) + (IF color = WHITE THEN 1 ELSE 0 - 1)}]]

OnRookLine(s, t) == s # t /\ (square_file(s) = square_file(t) \/ square_rank(s) = square_rank(t))
OnBishopLine(s, t) == s # t /\ Abs(square_file(s) - square_file(t)) = Abs(square_rank(s) - square_rank(t))

occupied(pieces) == {s \in Squares : pieces[s] # None}
occupied_co(pieces, color) == {s \in Squares : pieces[s] # None /\ piece_color(pieces[s]) = color}

\* Whether the piece on s attacks t when the occupied squares are occ
\* (attacks_mask and attackers_mask).
Attacks(pieces, occ, s, t) ==
    LET type == piece_type(pieces[s])
    IN  CASE type = "p" -> t \in BB_PAWN_ATTACKS[piece_color(pieces[s])][s]
          [] type = "n" -> t \in BB_KNIGHT_ATTACKS[s]
          [] type = "k" -> t \in BB_KING_ATTACKS[s]
          [] type = "b" -> OnBishopLine(s, t) /\ \A u \in between[s][t] : u \notin occ
          [] type = "r" -> OnRookLine(s, t) /\ \A u \in between[s][t] : u \notin occ
          [] type = "q" -> Aligned(s, t) /\ \A u \in between[s][t] : u \notin occ

\* Board.is_attacked_by(color, t), with the occupancy given
is_attacked_by(pieces, occ, color, t) ==
    \E s \in Squares :
        pieces[s] # None /\ piece_color(pieces[s]) = color /\ Attacks(pieces, occ, s, t)

\* Board.king(color): the king's square, or NoSquare
king(pieces, color) ==
    LET ks == {s \in Squares : pieces[s] = piece_symbol("k", color)}
    IN  IF ks = {} THEN NoSquare ELSE CHOOSE s \in ks : TRUE

\* Board.is_check()
is_check(b) ==
    /\ king(b.pieces, b.turn) # NoSquare
    /\ is_attacked_by(b.pieces, occupied(b.pieces), ~b.turn, king(b.pieces, b.turn))

(***************************************************************************)
(* Castling.                                                               *)
(***************************************************************************)
BackRank(color) == IF color = WHITE THEN 0 ELSE 7

\* Board.clean_castling_rights(), standard chess
clean_castling_rights(b) ==
    {r \in b.castling_rights :
        LET color == (square_rank(r) = 0)
        IN  /\ square_rank(r) \in {0, 7}
            /\ square_file(r) \in {0, 7}
            /\ b.pieces[r] = piece_symbol("r", color)
            /\ b.pieces[square(4, BackRank(color))] = piece_symbol("k", color)}

\* Board._from_chess960(False, from_square, to_square)
from_chess960(b, m) ==
    IF m.promotion = None /\ m.drop = None
       /\ square_file(m.from_square) = 4 /\ square_rank(m.from_square) \in {0, 7}
       /\ b.pieces[m.from_square] # None /\ piece_type(b.pieces[m.from_square]) = "k"
       /\ square_rank(m.to_square) = square_rank(m.from_square)
       /\ square_file(m.to_square) \in {0, 7}
    THEN Move(m.from_square,
              square(IF square_file(m.to_square) = 7 THEN 6 ELSE 2, square_rank(m.from_square)),
              None, None)
    ELSE m

\* Board._to_chess960(move)
to_chess960(b, m) ==
    IF /\ square_file(m.from_square) = 4 /\ square_rank(m.from_square) \in {0, 7}
       /\ b.pieces[m.from_square] # None /\ piece_type(b.pieces[m.from_square]) = "k"
       /\ square_rank(m.to_square) = square_rank(m.from_square)
       /\ square_file(m.to_square) \in {2, 6}
       /\ ~(b.pieces[m.to_square] # None /\ piece_type(b.pieces[m.to_square]) = "r")
    THEN Move(m.from_square,
              square(IF square_file(m.to_square) = 6 THEN 7 ELSE 0, square_rank(m.from_square)),
              m.promotion, m.drop)
    ELSE m

\* Board.generate_castling_moves()
generate_castling_moves(b) ==
    LET rank == BackRank(b.turn)
        k == square(4, rank)
        occ == occupied(b.pieces)
        CanCastle(rook) ==
            LET a_side == rook < k
                king_to == square(IF a_side THEN 2 ELSE 6, rank)
                rook_to == square(IF a_side THEN 3 ELSE 5, rank)
                king_path == between[k][king_to]
                rook_path == between[rook][rook_to]
            IN  /\ ((occ \ {k, rook}) \cap (king_path \cup rook_path \cup {king_to, rook_to})) = {}
                /\ \A t \in king_path \cup {k} : ~is_attacked_by(b.pieces, occ \ {k}, ~b.turn, t)
                /\ ~is_attacked_by(b.pieces, ((occ \ {k}) \ {rook}) \cup {rook_to}, ~b.turn, king_to)
    IN  IF b.pieces[k] # piece_symbol("k", b.turn) THEN {}
        ELSE {from_chess960(b, Move(k, rook, None, None)) :
                rook \in {r \in clean_castling_rights(b) : square_rank(r) = rank /\ CanCastle(r)}}

\* Board.is_castling(move)
is_castling(b, m) ==
    /\ b.pieces[m.from_square] # None
    /\ piece_type(b.pieces[m.from_square]) = "k"
    /\ \/ Abs(square_file(m.from_square) - square_file(m.to_square)) > 1
       \/ b.pieces[m.to_square] = piece_symbol("r", b.turn)

(***************************************************************************)
(* Move generation, legality and push.                                     *)
(***************************************************************************)
PromotionsOrPlain(from_square, to_square) ==
    IF square_rank(to_square) \in {0, 7}
    THEN {Move(from_square, to_square, p, None) : p \in {"q", "r", "b", "n"}}
    ELSE {Move(from_square, to_square, None, None)}

\* Board.generate_pseudo_legal_ep()
generate_pseudo_legal_ep(b, from_mask) ==
    IF b.ep_square = NoSquare \/ b.ep_square = 0 \/ b.pieces[b.ep_square] # None THEN {}
    ELSE {Move(s, b.ep_square, None, None) :
            s \in {c \in from_mask :
                     /\ b.pieces[c] = piece_symbol("p", b.turn)
                     /\ c \in BB_PAWN_ATTACKS[~b.turn][b.ep_square]
                     /\ square_rank(c) = (IF b.turn = WHITE THEN 4 ELSE 3)}}

\* The pawn moves of Board.generate_pseudo_legal_moves(from_mask)
PawnMoves(b, from_mask) ==
    LET dir == IF b.turn = WHITE THEN 8 ELSE 0 - 8
        pawns == {s \in from_mask : b.pieces[s] = piece_symbol("p", b.turn)}
        captures == UNION {UNION {PromotionsOrPlain(s, t) :
                             t \in {c \in BB_PAWN_ATTACKS[b.turn][s] :
                                      b.pieces[c] # None /\ piece_color(b.pieces[c]) # b.turn}} :
                           s \in pawns}
        single == UNION {PromotionsOrPlain(s, s + dir) :
                           s \in {c \in pawns : c + dir \in Squares /\ b.pieces[c + dir] = None}}
        double == {Move(s, s + 2 * dir, None, None) :
                     s \in {c \in pawns :
                              /\ square_rank(c) = (IF b.turn = WHITE THEN 1 ELSE 6)
                              /\ b.pieces[c + dir] = None
                              /\ b.pieces[c + 2 * dir] = None}}
    IN  captures \cup single \cup double \cup generate_pseudo_legal_ep(b, from_mask)

\* Board.generate_pseudo_legal_moves()
generate_pseudo_legal_moves(b) ==
    LET occ == occupied(b.pieces)
        own == occupied_co(b.pieces, b.turn)
        officers == {s \in own : piece_type(b.pieces[s]) # "p"}
        piece_moves == UNION {{Move(s, t, None, None) :
                                 t \in {c \in Squares \ own : Attacks(b.pieces, occ, s, c)}} :
                              s \in officers}
    IN  piece_moves \cup generate_castling_moves(b) \cup PawnMoves(b, Squares)

\* Board.push(move) on a pseudo-legal move: the new board.
push(b, move) ==
    LET m == to_chess960(b, move)
        piece == b.pieces[m.from_square]
        type == piece_type(piece)
        diff == m.to_square - m.from_square
        captured == b.pieces[m.to_square]
        rights0 == clean_castling_rights(b) \ {m.from_square, m.to_square}
        rights == IF type = "k"
                  THEN {r \in rights0 : square_rank(r) # BackRank(b.turn)}
                  ELSE rights0
        ep == IF type = "p" /\ diff = 16 /\ square_rank(m.from_square) = 1 THEN m.from_square + 8
              ELSE IF type = "p" /\ diff = 0 - 16 /\ square_rank(m.from_square) = 6 THEN m.from_square - 8
              ELSE NoSquare
        en_passant == /\ type = "p"
                      /\ Abs(diff) # 16
                      /\ m.to_square = b.ep_square
                      /\ Abs(diff) \in {7, 9}
                      /\ captured = None
        capture_square == IF en_passant
                          THEN b.ep_square + (IF b.turn = WHITE THEN 0 - 8 ELSE 8)
                          ELSE m.to_square
        placed == IF m.promotion # None THEN piece_symbol(m.promotion, b.turn) ELSE piece
        castling == type = "k" /\ captured # None /\ piece_color(captured) = b.turn
        a_side == square_file(m.to_square) < square_file(m.from_square)
        rank == square_rank(m.from_square)
        pieces == IF castling
                  THEN [s \in Squares |->
                          IF s = square(IF a_side THEN 2 ELSE 6, rank) THEN piece_symbol("k", b.turn)
                          ELSE IF s = square(IF a_side THEN 3 ELSE 5, rank) THEN piece_symbol("r", b.turn)
                          ELSE IF s \in {m.from_square, m.to_square} THEN None
                          ELSE b.pieces[s]]
                  ELSE [s \in Squares |->
                          IF s = m.to_square THEN placed
                          ELSE IF s = m.from_square \/ s = capture_square THEN None
                          ELSE b.pieces[s]]
    IN  [pieces |-> pieces, turn |-> ~b.turn, castling_rights |-> rights,
         ep_square |-> ep, ply |-> b.ply + 1]

\* Board.is_into_check(move) on a pseudo-legal move: castling moves are
\* generated safe; any other move is into check when the mover's king is
\* attacked on the board the move gives.
is_into_check(b, m) ==
    IF is_castling(b, m) THEN FALSE
    ELSE LET after == push(b, m).pieces
             k == king(after, b.turn)
         IN  k # NoSquare /\ is_attacked_by(after, occupied(after), ~b.turn, k)

\* Board.generate_legal_moves(), which board.legal_moves iterates
generate_legal_moves(b) == {m \in generate_pseudo_legal_moves(b) : ~is_into_check(b, m)}

\* Board.is_pseudo_legal(move)
is_pseudo_legal(b, move) ==
    LET piece == b.pieces[move.from_square]
        type == piece_type(piece)
        own == piece_color(b.pieces[move.to_square]) = b.turn /\ b.pieces[move.to_square] # None
    IN  /\ Move_bool(move)
        /\ move.drop = None
        /\ piece # None
        /\ piece_color(piece) = b.turn
        /\ move.promotion # None =>
             /\ type = "p"
             /\ square_rank(move.to_square) = (IF b.turn = WHITE THEN 7 ELSE 0)
        /\ \/ type = "k" /\ from_chess960(b, move) \in generate_castling_moves(b)
           \/ /\ ~own
              /\ IF type = "p"
                 THEN move \in PawnMoves(b, {move.from_square})
                 ELSE Attacks(b.pieces, occupied(b.pieces), move.from_square, move.to_square)

\* Board.is_legal(move), which `move in board.legal_moves` evaluates
is_legal(b, move) == is_pseudo_legal(b, move) /\ ~is_into_check(b, move)

\* Board.is_checkmate(), is_stalemate()
any_legal_move(b) == \E m \in generate_pseudo_legal_moves(b) : ~is_into_check(b, m)
is_checkmate(b) == is_check(b) /\ ~any_legal_move(b)
is_stalemate(b) == ~is_check(b) /\ ~any_legal_move(b)

\* Board.has_insufficient_material(color), is_insufficient_material()
has_insufficient_material(b, color) ==
    LET own == occupied_co(b.pieces, color)
        other == occupied_co(b.pieces, ~color)
        Of(types) == {s \in occupied(b.pieces) : piece_type(b.pieces[s]) \in types}
        dark == {s \in Squares : (square_file(s) + square_rank(s)) % 2 = 0}
    IN  IF own \cap Of({"p", "r", "q"}) # {} THEN FALSE
        ELSE IF own \cap Of({"n"}) # {}
        THEN Cardinality(own) <= 2 /\ other \ Of({"k", "q"}) = {}
        ELSE IF own \cap Of({"b"}) # {}
        THEN /\ Of({"b"}) \cap dark = {} \/ Of({"b"}) \ dark = {}
             /\ Of({"p"}) = {}
             /\ Of({"n"}) = {}
        ELSE TRUE

is_insufficient_material(b) ==
    has_insufficient_material(b, WHITE) /\ has_insufficient_material(b, BLACK)

\* chess.Board(), and the board after Board.reset()
BackRow == <<"r", "n", "b", "q", "k", "b", "n", "r">>
StartingBoard ==
    [pieces |-> [s \in Squares |->
                   CASE square_rank(s) = 0 -> Upper(BackRow[square_file(s) + 1])
                     [] square_rank(s) = 1 -> "P"
                     [] square_rank(s) = 6 -> "p"
                     [] square_rank(s) = 7 -> BackRow[square_file(s) + 1]
                     [] OTHER -> None],
     turn |-> WHITE, castling_rights |-> {0, 7, 56, 63}, ep_square |-> NoSquare, ply |-> 0]

\* board_svg = None
NoSvg == << >>

\* chess.svg.board(board, arrows, fill, size): what the picture shows
chess_svg_board(b, arrows, fill, size) ==
    [pieces |-> b.pieces, arrows |-> arrows, fill |-> fill, size |-> size]

(***************************************************************************)
(* The session: st.session_state and the functions of the script.          *)
(* A session state is a record of board, made_move, board_svg and          *)
(* move_history; a function of the script gives the session state it       *)
(* leaves and the value it returns (ret).                                  *)
(***************************************************************************)
Session(b, mm, svg, hist) ==
    [board |-> b, made_move |-> mm, board_svg |-> svg, move_history |-> hist]

\* Lines 9-16: the session state of a new session.
NewSession == Session(StartingBoard, FALSE, NoSvg, <<>>)

\* available_moves(): the entries that "," joins, each the str() of a legal move
available_moves(b) ==
    [kind |-> "Available moves are: ", entries |-> {uci(m) : m \in generate_legal_moves(b)}]

\* OutcomeLine with is_check() tested before is_checkmate().
OutcomeLine_check_first(b) ==
    IF is_check(b) THEN "Check!"
    ELSE IF is_checkmate(b)
    THEN (IF b.turn = BLACK THEN "Checkmate! White wins!" ELSE "Checkmate! Black wins!")
    ELSE IF is_stalemate(b) THEN "Game ended in stalemate!"
    ELSE IF is_insufficient_material(b) THEN "Game ended - insufficient material to checkmate!"
    ELSE ""

\* make_move, lines 59-68: the outcome line added to the description
OutcomeLine(b) ==
    IF is_checkmate(b)
    THEN (IF b.turn = BLACK THEN "Checkmate! White wins!" ELSE "Checkmate! Black wins!")
    ELSE IF is_stalemate(b) THEN "Game ended in stalemate!"
    ELSE IF is_insufficient_material(b) THEN "Game ended - insufficient material to checkmate!"
    ELSE IF is_check(b) THEN "Check!"
    ELSE ""

\* make_move, lines 50-70: the description of the move made, or the
\* AttributeError of None.unicode_symbol() when the destination square is
\* empty.  str.isupper() is False of every chess glyph, so the piece's name
\* is never capitalized.
Describe(b, chess_move) ==
    LET moved_piece == b.pieces[chess_move.to_square]
    IN  IF moved_piece = None
        THEN [kind |-> "AttributeError"]
        ELSE [kind |-> "Moved",
              piece_name |-> piece_name(piece_type(moved_piece)),
              piece_unicode |-> unicode_symbol(moved_piece),
              from |-> SQUARE_NAMES[chess_move.from_square],
              to |-> SQUARE_NAMES[chess_move.to_square],
              outcome |-> OutcomeLine(b)]

\* ApplyMove with the picture drawn before the push.
ApplyMove_stale_picture(st, chess_move) ==
    LET board_svg_ == chess_svg_board(st.board, <<chess_move.from_square, chess_move.to_square>>,
                                     {chess_move.from_square}, 400)
    IN  Session(push(st.board, chess_move), TRUE, board_svg_, Append(st.move_history, board_svg_))

\* make_move, lines 37-48: the board is pushed, the flag set, the picture
\* of the new board saved and appended.
ApplyMove(st, chess_move) ==
    LET b == push(st.board, chess_move)
        board_svg_ == chess_svg_board(b, <<chess_move.from_square, chess_move.to_square>>,
                                     {chess_move.from_square}, 400)
    IN  Session(b, TRUE, board_svg_, Append(st.move_history, board_svg_))

\* make_move with made_move set before the move is parsed.
make_move_flag_first(st, move) ==
    LET chess_move == from_uci(move)
        flagged == [st EXCEPT !.made_move = TRUE]
    IN  IF ~chess_move.ok
        THEN [st |-> flagged, ret |-> [kind |-> "Invalid move format", move |-> move]]
        ELSE IF ~is_legal(st.board, chess_move)
        THEN [st |-> flagged, ret |-> [kind |-> "Invalid move", move |-> move]]
        ELSE LET after == ApplyMove(st, chess_move)
             IN  [st |-> after, ret |-> Describe(after.board, chess_move)]

\* make_move(move): the session it leaves and what it returns
make_move(st, move) ==
    LET chess_move == from_uci(move)
    IN  IF ~chess_move.ok
        THEN [st |-> st, ret |-> [kind |-> "Invalid move format", move |-> move]]
        ELSE IF ~is_legal(st.board, chess_move)
        THEN [st |-> st, ret |-> [kind |-> "Invalid move", move |-> move]]
        ELSE LET after == ApplyMove(st, chess_move)
             IN  [st |-> after, ret |-> Describe(after.board, chess_move)]

\* check_made_move(msg)
check_made_move(st) ==
    IF st.made_move
    THEN [st |-> [st EXCEPT !.made_move = FALSE], ret |-> [kind |-> "bool", value |-> TRUE]]
    ELSE [st |-> st, ret |-> [kind |-> "bool", value |-> FALSE]]

\* start_game without line 202.
start_game_keeps_history(st) ==
    Session(StartingBoard, FALSE, chess_svg_board(StartingBoard, <<>>, {}, 300), st.move_history)

\* Lines 200-203: what the Start Game button does before the agents talk
start_game(st) ==
    Session(StartingBoard, FALSE, chess_svg_board(StartingBoard, <<>>, {}, 300), <<>>)

\* reset_game without line 225.
reset_game_keeps_board(st) == Session(st.board, FALSE, NoSvg, <<>>)

\* Lines 225-228: the Reset Game button
reset_game(st) == Session(StartingBoard, FALSE, NoSvg, <<>>)

(***************************************************************************)
(* Inputs: the move strings the agents may pass to make_move.              *)
(***************************************************************************)
\* From the starting position: White castles after e2e4, f1c4, g1e2, or
\* mates on f7 after e2e4, f1c4, d1h5; Black advances the a-pawn.
OpeningStrings ==
    { <<"e", "2", "e", "4">>, <<"f", "1", "c", "4">>, <<"g", "1", "e", "2">>,
      <<"e", "1", "g", "1">>, <<"e", "1", "h", "1">>,
      <<"d", "1", "h", "5">>, <<"h", "5", "f", "7">>,
      <<"a", "7", "a", "6">>, <<"a", "6", "a", "5">>, <<"a", "5", "a", "4">> }

\* In the positions of a game in progress (MidBoards).
EndgameStrings ==
    { <<"c", "1", "a", "3">>, <<"f", "8", "g", "8">>,
      <<"g", "5", "g", "6">>, <<"g", "5", "g", "7">>, <<"g", "5", "d", "8">>,
      <<"h", "8", "h", "7">> }

RejectedStrings ==
    { <<"x", "y", "z">>, <<"e", "2">>, << >>, <<"e", "2", "e", "2">>,
      <<"0", "0", "0", "0">>, <<"Q", "@", "e", "4">>, <<"e", "2", "e", "5">> }

MoveStrings == OpeningStrings \cup EndgameStrings \cup RejectedStrings

(***************************************************************************)
(* The state machine.  op, arg and ret record the last call and what it    *)
(* returned.  handoff counts the plies pushed since check_made_move last   *)
(* returned True (or since the last reset) and pre_ply is the board's ply  *)
(* before the last call: history variables, read by the properties only.   *)
(***************************************************************************)
Now == Session(board, made_move, board_svg, move_history)

Becomes(st) ==
    /\ board' = st.board
    /\ made_move' = st.made_move
    /\ board_svg' = st.board_svg
    /\ move_history' = st.move_history

Starts(st) ==
    /\ board = st.board
    /\ made_move = st.made_move
    /\ board_svg = st.board_svg
    /\ move_history = st.move_history
    /\ op = "new" /\ arg = << >> /\ ret = [kind |-> "None"]
    /\ handoff = 0 /\ pre_ply = st.board.ply

Init == Starts(NewSession)

AvailableMoves ==
    /\ op' = "available_moves" /\ arg' = << >>
    /\ ret' = available_moves(board)
    /\ pre_ply' = board.ply
    /\ UNCHANGED <<board, made_move, board_svg, move_history, handoff>>

MakeMove ==
    \E move \in MoveStrings :
        /\ board.ply < MaxPly
        /\ op' = "make_move" /\ arg' = move
        /\ LET r == make_move(Now, move)
           IN  Becomes(r.st) /\ ret' = r.ret
        /\ handoff' = IF board' = board THEN handoff
                      ELSE IF handoff < HandoffCap THEN handoff + 1 ELSE HandoffCap
        /\ pre_ply' = board.ply

CheckMadeMove ==
    /\ op' = "check_made_move" /\ arg' = << >>
    /\ LET r == check_made_move(Now)
       IN  Becomes(r.st) /\ ret' = r.ret
    /\ handoff' = IF ret'.value THEN 0 ELSE handoff
    /\ pre_ply' = board.ply

StartGame ==
    /\ op' = "start_game" /\ arg' = << >>
    /\ Becomes(start_game(Now))
    /\ ret' = [kind |-> "None"]
    /\ handoff' = 0
    /\ pre_ply' = board.ply

ResetGame ==
    /\ op' = "reset_game" /\ arg' = << >>
    /\ Becomes(reset_game(Now))
    /\ ret' = [kind |-> "None"]
    /\ handoff' = 0
    /\ pre_ply' = board.ply

Next == AvailableMoves \/ MakeMove \/ CheckMadeMove \/ StartGame \/ ResetGame

Spec == Init /\ [][Next]_vars

(***************************************************************************)
(* The same machine started in a game in progress.  Each board of          *)
(* MidBoards is a position that legal play reaches from the starting       *)
(* position; the PriorPlies plies before it are not replayed, and their    *)
(* pictures in move_history are stood in for by pictures of the position.  *)
(***************************************************************************)
Place(placed) ==
    [s \in Squares |-> IF \E x \in placed : x[1] = s
                       THEN (CHOOSE x \in placed : x[1] = s)[2]
                       ELSE None]

\* King and bishop against king and pawn, White to move: c1a3 takes the
\* pawn with check and leaves king and bishop against king.
BishopEnding ==
    [pieces |-> Place({<<square(7, 0), "K">>, <<square(2, 0), "B">>,
                       <<square(5, 7), "k">>, <<square(0, 2), "p">>}),
     turn |-> WHITE, castling_rights |-> {}, ep_square |-> NoSquare, ply |-> PriorPlies]

\* King and queen against king, White to move: g5g6 stalemates, g5g7 mates,
\* g5d8 gives check.
QueenEnding ==
    [pieces |-> Place({<<square(5, 6), "K">>, <<square(6, 4), "Q">>, <<square(7, 7), "k">>}),
     turn |-> WHITE, castling_rights |-> {}, ep_square |-> NoSquare, ply |-> PriorPlies]

MidBoards == {BishopEnding, QueenEnding}

MidSession(b) ==
    LET shown == chess_svg_board(b, <<>>, {}, 400)
    IN  Session(b, FALSE, IF PriorPlies > 0 THEN shown ELSE NoSvg, [i \in 1 .. PriorPlies |-> shown])

InitMid == \E b \in MidBoards : Starts(MidSession(b))

SpecMid == InitMid /\ [][Next]_vars

(***************************************************************************)
(* Properties.                                                             *)
(***************************************************************************)
SameSession ==
    /\ board' = board
    /\ made_move' = made_move
    /\ board_svg' = board_svg
    /\ move_history' = move_history

Resets == {"start_game", "reset_game"}

\* The text is two square names and, if a fifth character follows, a
\* promotion letter.
CoordinatePair(s) ==
    /\ Len(s) \in {4, 5}
    /\ SquareIndex(s[1], s[2]) # NoSquare
    /\ SquareIndex(s[3], s[4]) # NoSquare
    /\ Len(s) = 5 => s[5] \in {"q", "r", "b", "n"}

\* C1 as claimed: make_move answers every string that is not a coordinate
\* pair with "Invalid move format" and changes nothing.
C1_NotPairIsFormatError ==
    [][(op' = "make_move" /\ ~CoordinatePair(arg'))
         => (ret'.kind = "Invalid move format" /\ SameSession)]_vars

\* C1 as amended: make_move answers every string that Move.from_uci rejects
\* with "Invalid move format" naming the string, and changes nothing; the
\* strings that are no coordinate pair and that from_uci accepts (the null
\* move "0000", a drop such as "Q@e4") are answered with "Invalid move"
\* naming the string, and change nothing either.
C1_UnparsedIsFormatError ==
    [][/\ (op' = "make_move" /\ ~from_uci(arg').ok)
            => (ret'.kind = "Invalid move format" /\ ret'.move = arg' /\ SameSession)
       /\ (op' = "make_move" /\ ~CoordinatePair(arg') /\ from_uci(arg').ok)
            => (ret'.kind = "Invalid move" /\ ret'.move = arg' /\ SameSession)]_vars

C1_Witness ==
    /\ op = "make_move" /\ arg = <<"x", "y", "z">>
    /\ ret.kind = "Invalid move format"
    /\ board.ply > 0 /\ made_move = FALSE

\* C2 as claimed: a string that parses and is not one of the legal moves of
\* the board is answered with "Invalid move" naming it, and changes nothing
\* (stated by contraposition: a parsed string answered otherwise is one of
\* the legal moves).
C2_UnlistedIsRejected ==
    [][(/\ op' = "make_move"
        /\ from_uci(arg').ok
        /\ ~(ret'.kind = "Invalid move" /\ ret'.move = arg' /\ SameSession))
         => from_uci(arg') \in generate_legal_moves(board)]_vars

\* C3 as claimed: every string by which make_move advances the board is one
\* of the entries available_moves lists for the board before the call.
C3_AcceptedWasListed ==
    [][(op' = "make_move" /\ board' # board)
         => arg' \in available_moves(board).entries]_vars

\* C4 as claimed: make_move always returns one of its three result strings.
C4_AlwaysAResultString ==
    op = "make_move" => ret.kind \in {"Moved", "Invalid move format", "Invalid move"}

\* C5: a make_move that advances the board advances it by one ply, flips
\* the side to move, appends one picture, of the board after the move, and
\* sets made_move; a make_move that returns the description has advanced
\* the board.
C5_OnePlyOneRecord ==
    [][/\ (op' = "make_move" /\ board' # board)
            => /\ board'.ply = board.ply + 1
               /\ board'.turn = ~board.turn
               /\ Len(move_history') = Len(move_history) + 1
               /\ SubSeq(move_history', 1, Len(move_history)) = move_history
               /\ move_history'[Len(move_history')].pieces = board'.pieces
               /\ board_svg' = move_history'[Len(move_history')]
               /\ made_move'
       /\ (op' = "make_move" /\ ret'.kind = "Moved") => board' # board]_vars

C5_Witness ==
    /\ op = "make_move" /\ ret.kind = "Moved"
    /\ board.ply = pre_ply + 1 /\ pre_ply >= 2
    /\ Len(move_history) = board.ply
    /\ made_move

\* C6: the outcome line of a description is the first that applies to the
\* board after the move: checkmate (naming the side that moved), else
\* stalemate, else insufficient material, else check, else none.
C6_OutcomePrecedence ==
    (op = "make_move" /\ ret.kind = "Moved") =>
        LET mate == is_checkmate(board)
            stale == is_stalemate(board)
            bare == is_insufficient_material(board)
        IN  /\ mate => ret.outcome = (IF board.turn = BLACK THEN "Checkmate! White wins!"
                                                             ELSE "Checkmate! Black wins!")
            /\ (~mate /\ stale) => ret.outcome = "Game ended in stalemate!"
            /\ (~mate /\ ~stale /\ bare)
                 => ret.outcome = "Game ended - insufficient material to checkmate!"
            /\ (~mate /\ ~stale /\ ~bare /\ is_check(board)) => ret.outcome = "Check!"
            /\ (~mate /\ ~stale /\ ~bare /\ ~is_check(board)) => ret.outcome = ""

C6_Witness ==
    /\ op = "make_move" /\ ret.kind = "Moved"
    /\ is_insufficient_material(board) /\ is_check(board)
    /\ ret.outcome = "Game ended - insufficient material to checkmate!"

\* C7: Start Game and Reset Game leave the starting position, whose legal
\* moves are those of a new board, an empty move_history and made_move
\* False; Reset Game on the state it leaves changes nothing.
C7_ResetRestores ==
    [][(op' \in Resets)
         => /\ board' = NewSession.board
            /\ available_moves(board') = available_moves(NewSession.board)
            /\ move_history' = << >>
            /\ made_move' = FALSE
            /\ reset_game(reset_game(Now)) = reset_game(Now)
            /\ op' = "reset_game" => reset_game(Now)' = Now']_vars

C7_Witness ==
    /\ op = "reset_game" /\ pre_ply >= 3
    /\ board = StartingBoard /\ move_history = << >> /\ made_move = FALSE

\* C8 as claimed: no make_move advances a board that is checkmate,
\* stalemate or insufficient material.
C8_TerminalStaysTerminal ==
    [][(op' = "make_move" /\ board' # board)
         => ~(is_checkmate(board) \/ is_stalemate(board) \/ is_insufficient_material(board))]_vars

\* C8, the part the code keeps: no make_move advances a board that is
\* checkmate or stalemate.
C8_MateAndStalemateAreFinal ==
    [][(op' = "make_move" /\ board' # board)
         => ~(is_checkmate(board) \/ is_stalemate(board))]_vars

\* C9: move_history is as long as the plies on the board; a step leaves it,
\* or make_move appends one picture, or a reset empties it; available_moves
\* changes neither the board nor move_history.
C9_HistoryFollowsBoard ==
    /\ [](Len(move_history) = board.ply)
    /\ [][/\ \/ move_history' = move_history
             \/ /\ op' = "make_move"
                /\ Len(move_history') = Len(move_history) + 1
                /\ SubSeq(move_history', 1, Len(move_history)) = move_history
             \/ op' \in Resets /\ move_history' = << >>
          /\ op' = "available_moves" => (board' = board /\ move_history' = move_history)]_vars

C9_Witness ==
    /\ op = "start_game" /\ pre_ply >= 2
    /\ Len(move_history) = 0 /\ board.ply = 0

\* C10 as claimed: when check_made_move returns True, exactly one ply was
\* pushed since it last returned True (or since the last reset).
C10_OnePlyPerHandoff ==
    [][(op' = "check_made_move" /\ ret'.value) => handoff = 1]_vars

\* C10, the part the code keeps: made_move is set exactly when a ply was
\* pushed since check_made_move last returned True (or since the last
\* reset); check_made_move returns the flag and leaves it False;
\* available_moves and a rejected make_move leave the flag alone.
C10_FlagFollowsMoves ==
    /\ [](made_move <=> handoff >= 1)
    /\ [][/\ op' = "check_made_move" => (ret'.value = made_move /\ made_move' = FALSE)
          /\ (op' = "available_moves" \/ (op' = "make_move" /\ board' = board))
               => made_move' = made_move]_vars

====
